---- MODULE Spec2Model ----
(***************************************************************************)
(* A model of splitter.py: main() loads the configuration, enumerates the  *)
(* qualified files (find_qualified_files) and calls split_image on each    *)
(* one in turn.  The local file system, the remote resources and the       *)
(* configuration files are the inputs of a run.                            *)
(***************************************************************************)
EXTENDS Integers, Sequences, FiniteSets, TLC

\* ------------------------------------------------------------------ bounds
MaxInputs == 2      \* longest list of input specifiers on the command line
MaxDim == 2         \* largest width of the local image in/grid.png
MaxFailures == 1    \* most quadrant.save() calls that fail in one run

\* ------------------------------------------------------------- the strings
\* A path is a record: the directory components, the file name without its
\* extension, and the extension without its dot ("" when the name has none).
P(dir, stem, ext) == [dir |-> dir, stem |-> stem, ext |-> ext]

None == "<None>"

\* str.strip() on the lines the configuration files of the model hold
strip(s) ==
  CASE s = " .PNG " -> ".PNG"
    [] s = " Yes" -> "Yes"
    [] s = " " -> ""
    [] OTHER -> s

\* str.lower() on the strings of the model
lower(s) ==
  CASE s = ".PNG" -> ".png"
    [] s = "PNG" -> "png"
    [] s = "Yes" -> "yes"
    [] s = "Image/JPEG" -> "image/jpeg"
    [] OTHER -> s

\* The characters of the content types and of the extension tokens: what
\* str.startswith and str.split look at.
Chars(s) ==
  CASE s = "image/" -> <<"i", "m", "a", "g", "e", "/">>
    [] s = "image/jpeg" -> <<"i", "m", "a", "g", "e", "/", "j", "p", "e", "g">>
    [] s = "Image/JPEG" -> <<"I", "m", "a", "g", "e", "/", "J", "P", "E", "G">>
    [] s = "image/png" -> <<"i", "m", "a", "g", "e", "/", "p", "n", "g">>
    [] s = "text/html" -> <<"t", "e", "x", "t", "/", "h", "t", "m", "l">>
    [] s = "png" -> <<"p", "n", "g">>
    [] s = ".png" -> <<".", "p", "n", "g">>
    [] s = "jpg" -> <<"j", "p", "g">>
    [] s = "jpeg" -> <<"j", "p", "e", "g">>
    [] s = "JPEG" -> <<"J", "P", "E", "G">>
    [] s = "webp" -> <<"w", "e", "b", "p">>
    [] s = "html" -> <<"h", "t", "m", "l">>
    [] s = "" -> <<>>

Words == {"image/", "image/jpeg", "Image/JPEG", "image/png", "text/html", "png",
          ".png", "jpg", "jpeg", "JPEG", "webp", "html", ""}

FromChars(cs) == CHOOSE s \in Words : Chars(s) = cs

\* content_type.startswith("image/" + img_type)
startswith(s, image, img_type) ==
  LET cs == Chars(s)
      pre == Chars(image) \o Chars(img_type)
  IN  Len(pre) <= Len(cs) /\ SubSeq(cs, 1, Len(pre)) = pre

\* content_type.split('/')[-1]
last_of_split(s) ==
  LET cs == Chars(s)
      slashes == {i \in 1..Len(cs) : cs[i] = "/"}
      from == IF slashes = {} THEN 1
              ELSE 1 + CHOOSE i \in slashes : \A j \in slashes : j <= i
  IN  FromChars(SubSeq(cs, from, Len(cs)))

\* --------------------------------------------------- the local file system
InDir == <<"in">>
SubDir == <<"in", "sub">>
OutDirs == {<<"in", "outputs">>, <<"outputs">>}
Dirs == {InDir, SubDir} \cup OutDirs

\* the order in which a directory lists its subdirectories and its files
DirListing == <<InDir, SubDir, <<"in", "outputs">>, <<"outputs">>>>

GridPng == P(InDir, "grid", "png")
BadTxt == P(InDir, "bad", "txt")
DeepPNG == P(SubDir, "deep", "PNG")
OldQuadrant(d, i) == P(d, "grid_" \o ToString(i), "png")

FileListing ==
  <<BadTxt, GridPng, DeepPNG,
    OldQuadrant(<<"in", "outputs">>, 1), OldQuadrant(<<"in", "outputs">>, 3),
    OldQuadrant(<<"outputs">>, 1), OldQuadrant(<<"outputs">>, 3)>>

\* What a file holds.  An image is a W x H window into a picture: its pixel
\* (x, y) is the picture's pixel (ox + x, oy + y).
Image(id, ox, oy, w, h) ==
  [kind |-> "image", id |-> id, ox |-> ox, oy |-> oy, w |-> w, h |-> h]
Data(id) == [kind |-> "data", id |-> id, ox |-> 0, oy |-> 0, w |-> 0, h |-> 0]
NoImage == Data(None)

\* ---------------------------------------------------- the remote resources
UrlDir == <<"http:", "", "e.com">>
GridJpg == P(UrlDir, "grid", "jpg")
MovedPng == P(UrlDir, "moved", "png")
GonePng == P(UrlDir, "gone", "png")
Urls == {GridJpg, MovedPng, GonePng}

\* The answer of the server to HEAD and GET: the final status after
\* redirects, the Content-Type header and the body.
Remote(url) ==
  CASE url = GridJpg ->
         [status |-> 200, ctype |-> "Image/JPEG", body |-> Image("remote", 0, 0, 4, 2)]
    [] url = MovedPng ->
         [status |-> 203, ctype |-> "image/png", body |-> Image("moved", 0, 0, 2, 2)]
    [] url = GonePng ->
         [status |-> 404, ctype |-> "text/html", body |-> Data("gone")]

\* --------------------------------------------------------- the configuration
\* load_supported_extensions: the stripped, lower-cased, non-blank lines
load_supported_extensions(lines) ==
  {lower(strip(lines[i])) : i \in {j \in 1..Len(lines) : strip(lines[j]) # ""}}

\* load_output_format: the first non-blank line, or None when there is none
\* (the caller then exits with status 1)
load_output_format(lines) ==
  LET outputs == SelectSeq(lines, LAMBDA l : strip(l) # "")
  IN  IF outputs = <<>> THEN None ELSE lower(strip(outputs[1]))

\* load_recursive_policy
load_recursive_policy(text) == lower(strip(text)) \in {"yes", "true"}

\* ------------------------------------------------------------ the os module
isfile(f, p) == p \in DOMAIN f
isdir(p) == p.ext = "" /\ Append(p.dir, p.stem) \in Dirs

\* os.path.splitext(p)[1]: the extension with its dot, "" when there is none
splitext_ext(p) == IF p.ext = "" THEN "" ELSE "." \o p.ext

\* os.path.splitext(os.path.basename(p))[0]
base_name(p) == p.stem

subdirs(top) ==
  SelectSeq(DirListing,
            LAMBDA d : Len(d) = Len(top) + 1 /\ SubSeq(d, 1, Len(top)) = top)

\* os.walk(top), top-down: the directories it yields as root, in order
RECURSIVE os_walk(_)
RECURSIVE walk_each(_)
walk_each(ds) == IF ds = <<>> THEN <<>> ELSE os_walk(Head(ds)) \o walk_each(Tail(ds))
os_walk(top) == <<top>> \o walk_each(subdirs(top))

\* the files os.walk lists for one root, joined to the root
files_of(f, root) == SelectSeq(FileListing, LAMBDA p : p \in DOMAIN f /\ p.dir = root)

\* -------------------------------------------------------------- the network
\* requests.head / requests.get raise a RequestException for a specifier
\* that is no URL of a reachable server
request_fails(url) == url \notin Urls
\* response.raise_for_status()
raise_for_status(r) == r.status >= 400

check_remote_file_content_type(url, image_types) ==
  IF image_types = {} THEN FALSE
  ELSE IF request_fails(url) THEN FALSE
  ELSE IF raise_for_status(Remote(url)) THEN FALSE
  ELSE \E img_type \in image_types :
         startswith(lower(Remote(url).ctype), "image/", img_type)

\* ------------------------------------------------------ find_qualified_files
ext_in(p, exts) == lower(splitext_ext(p)) \in exts

\* a variant without the break of the non-recursive walk
every_root(top, rec) == os_walk(top)

\* the roots the directory branch visits: all of os.walk, or the first only
visited_roots(top, rec) == IF rec THEN os_walk(top) ELSE SubSeq(os_walk(top), 1, 1)

RECURSIVE walk_files(_, _, _)
walk_files(f, roots, exts) ==
  IF roots = <<>> THEN <<>>
  ELSE SelectSeq(files_of(f, Head(roots)), LAMBDA p : ext_in(p, exts))
       \o walk_files(f, Tail(roots), exts)

\* what one input path contributes to qualified_files
find_one(f, input_path, exts, rec) ==
  IF isfile(f, input_path)
  THEN IF ext_in(input_path, exts) THEN <<input_path>> ELSE <<>>
  ELSE IF isdir(input_path)
  THEN walk_files(f, visited_roots(Append(input_path.dir, input_path.stem), rec), exts)
  ELSE IF check_remote_file_content_type(input_path, exts)
  THEN <<input_path>>
  ELSE <<>>

RECURSIVE flatten(_)
flatten(ss) == IF ss = <<>> THEN <<>> ELSE Head(ss) \o flatten(Tail(ss))

\* --------------------------------------------------------------- split_image
\* acquire_image: the local open, then the remote one; NoImage for None
acquire_image(f, image_path, image_types) ==
  IF isfile(f, image_path) /\ f[image_path].kind = "image" THEN f[image_path]
  ELSE IF check_remote_file_content_type(image_path, image_types)
          /\ Remote(image_path).body.kind = "image"
  THEN Remote(image_path).body
  ELSE NoImage

\* get_content_type: a value, None, or an exception.  mimetypes is never
\* imported, so the local-file branch raises NameError.
get_content_type(f, path) ==
  IF isfile(f, path) THEN [raised |-> TRUE, value |-> None]
  ELSE IF path.dir # <<>> /\ path.dir[1] \in {"http:", "https:"}
  THEN IF request_fails(path) THEN [raised |-> FALSE, value |-> None]
       ELSE IF Remote(path).status = 200
       THEN [raised |-> FALSE, value |-> Remote(path).ctype]
       ELSE [raised |-> FALSE, value |-> None]
  ELSE [raised |-> FALSE, value |-> None]

\* get_image_type: None.split raises AttributeError
get_image_type(f, path) ==
  LET content_type == get_content_type(f, path)
  IN  IF content_type.raised \/ content_type.value = None
      THEN [raised |-> TRUE, value |-> None]
      ELSE [raised |-> FALSE, value |-> last_of_split(content_type.value)]

\* a variant that looks at the width alone
width_even(width, height) == width % 2 = 0

dimensions_even(width, height) == width % 2 = 0 /\ height % 2 = 0

\* the four crop boxes (left, upper, right, lower), in the order of the list
quadrants(width, height) ==
  LET mid_x == width \div 2
      mid_y == height \div 2
  IN  << <<0, 0, mid_x, mid_y>>,
         <<mid_x, 0, width, mid_y>>,
         <<0, mid_y, mid_x, height>>,
         <<mid_x, mid_y, width, height>> >>

\* img.crop(box)
crop(image, box) ==
  Image(image.id, image.ox + box[1], image.oy + box[2], box[3] - box[1], box[4] - box[2])

is_derive(pref) == pref = "" \/ pref = "default"

\* os.path.join(output_dir, f"{base_name}_{i+1}.{output_format}"), k = i + 1
output_file(dir, image_path, k, format) ==
  P(dir, base_name(image_path) \o "_" \o ToString(k), format)

\* a variant that saves whether or not the output file exists
should_save_always(f, file) == TRUE

\* if not os.path.exists(output_file)
should_save(f, file) == file \notin DOMAIN f

\* split_image up to its loop: "return_false", "raise", or "loop" with the
\* image and the resolved format
split_prologue(f, image_path, pref, image_types) ==
  LET image == acquire_image(f, image_path, image_types)
      derived == get_image_type(f, image_path)
      out(o, fm, c) == [outcome |-> o, img |-> image, fmt |-> fm, consulted |-> c]
  IN  IF image = NoImage THEN out("return_false", None, FALSE)
      ELSE IF ~dimensions_even(image.w, image.h) THEN out("return_false", None, FALSE)
      ELSE IF is_derive(pref)
      THEN IF derived.raised THEN out("raise", None, TRUE)
           ELSE IF derived.value = "" THEN out("return_false", None, TRUE)
           ELSE out("loop", derived.value, TRUE)
      ELSE out("loop", pref, FALSE)

\* quadrant.save(output_file, ...): the file now holds the quadrant
write(f, file, content) ==
  [p \in DOMAIN f \cup {file} |-> IF p = file THEN content ELSE f[p]]

\* ------------------------------------------------------------------ the run
VARIABLES
  ext_lines,             \* config/extensions.txt, its lines
  format_lines,          \* config/output_format.txt, its lines
  recursive_text,        \* config/recursive.txt
  inputs,                \* args.inputs
  output_dir,            \* args.output
  fs,                    \* the local regular files and what they hold
  pc,                    \* where main() is
  supported_extensions,
  output_format,
  recursive,
  found,                 \* what each input contributed to qualified_files
  qualified_files,
  idx,                   \* the position of main's loop in qualified_files
  frame,                 \* the split_image call in progress
  failures,              \* the quadrant.save() calls that failed so far
  calls                  \* the split_image calls that ended, in order

vars == <<ext_lines, format_lines, recursive_text, inputs, output_dir, fs, pc,
          supported_extensions, output_format, recursive, found, qualified_files,
          idx, frame, failures, calls>>

config == <<ext_lines, format_lines, recursive_text, inputs, output_dir>>
loaded == <<supported_extensions, output_format, recursive>>

ExtFiles == {<<"png", "jpg", "jpeg", "webp">>, <<" .PNG ", " ", "jpeg">>}
FormatFiles == {<<"default">>, <<" ", "PNG">>, <<" ">>}
RecursiveFiles == {" Yes", "no"}

InSpec == P(<<>>, "in", "")
DirSpec(d) == P(SubSeq(d, 1, Len(d) - 1), d[Len(d)], "")
InputUniverse(out) == {InSpec, DirSpec(out), GridPng, GridJpg, MovedPng, GonePng}

RECURSIVE SeqsUpTo(_, _)
SeqsUpTo(S, n) ==
  IF n = 0 THEN {<<>>}
  ELSE SeqsUpTo(S, n - 1)
       \cup {Append(s, x) : s \in {t \in SeqsUpTo(S, n - 1) : Len(t) = n - 1}, x \in S}

\* the files of a run before it starts: the inputs, and the quadrants an
\* earlier run left in the output directory
InitialFiles(out, old, w) ==
  LET names == {BadTxt, GridPng, DeepPNG} \cup {OldQuadrant(out, i) : i \in old}
  IN  [p \in names |->
         CASE p = BadTxt -> Data("bad")
           [] p = GridPng -> Image("grid", 0, 0, w, 2)
           [] p = DeepPNG -> Image("deep", 0, 0, 2, 1)
           [] OTHER -> Image("old", 0, 0, 1, 1)]

NoFrame ==
  [path |-> P(<<>>, None, ""), img |-> NoImage, fmt |-> None, consulted |-> FALSE,
   k |-> 0, fs0 |-> <<>>, written |-> {}, skipped |-> {}, partial |-> {},
   failed_at |-> 0]

Init ==
  /\ ext_lines \in ExtFiles
  /\ format_lines \in FormatFiles
  /\ recursive_text \in RecursiveFiles
  /\ output_dir \in OutDirs
  /\ inputs \in SeqsUpTo(InputUniverse(output_dir), MaxInputs) \ {<<>>}
  /\ \E old \in {{}, {1, 3}}, w \in 1..MaxDim :
       fs = InitialFiles(output_dir, old, w)
  /\ pc = "config"
  /\ supported_extensions = {}
  /\ output_format = None
  /\ recursive = FALSE
  /\ found = <<>>
  /\ qualified_files = <<>>
  /\ idx = 0
  /\ frame = NoFrame
  /\ failures = 0
  /\ calls = <<>>

\* main, lines 376-378: the three loads succeed
LoadConfig ==
  /\ pc = "config"
  /\ load_output_format(format_lines) # None
  /\ supported_extensions' = load_supported_extensions(ext_lines)
  /\ output_format' = load_output_format(format_lines)
  /\ recursive' = load_recursive_policy(recursive_text)
  /\ pc' = "find"
  /\ UNCHANGED <<config, fs, found, qualified_files, idx, frame, failures, calls>>

\* load_output_format finds no format: sys.exit(1)
ConfigExit ==
  /\ pc = "config"
  /\ load_output_format(format_lines) = None
  /\ supported_extensions' = load_supported_extensions(ext_lines)
  /\ pc' = "exit"
  /\ UNCHANGED <<config, fs, output_format, recursive, found, qualified_files, idx,
                 frame, failures, calls>>

\* main, line 386: find_qualified_files; output_dir is passed and never read
FindQualified ==
  /\ pc = "find"
  /\ found' = [i \in 1..Len(inputs) |->
                 find_one(fs, inputs[i], supported_extensions, recursive)]
  /\ qualified_files' = flatten(found')
  /\ idx' = 1
  /\ pc' = "loop"
  /\ UNCHANGED <<config, loaded, fs, frame, failures, calls>>

Prologue ==
  split_prologue(fs, qualified_files[idx], output_format, supported_extensions)

\* the record of a call that ended
Ended(fr, ret, after) ==
  [index |-> Len(calls) + 1, path |-> fr.path, ret |-> ret, img |-> fr.img,
   fmt |-> fr.fmt, consulted |-> fr.consulted, fs0 |-> fr.fs0, fs1 |-> after,
   written |-> fr.written, skipped |-> fr.skipped, partial |-> fr.partial,
   failed_at |-> fr.failed_at]

Entered(pro) ==
  [path |-> qualified_files[idx], img |-> pro.img, fmt |-> pro.fmt,
   consulted |-> pro.consulted, k |-> 1, fs0 |-> fs, written |-> {}, skipped |-> {},
   partial |-> {}, failed_at |-> 0]

\* split_image returns False before its loop: no image, odd dimensions, or
\* an empty derived format
SplitReturnsEarly ==
  /\ pc = "loop" /\ idx <= Len(qualified_files)
  /\ Prologue.outcome = "return_false"
  /\ calls' = Append(calls, Ended(Entered(Prologue), "False", fs))
  /\ idx' = idx + 1
  /\ UNCHANGED <<config, loaded, fs, pc, found, qualified_files, frame, failures>>

\* get_image_type raises inside split_image; nothing catches it, main ends
\* with the traceback
SplitRaises ==
  /\ pc = "loop" /\ idx <= Len(qualified_files)
  /\ Prologue.outcome = "raise"
  /\ calls' = Append(calls, Ended(Entered(Prologue), "raised", fs))
  /\ pc' = "crashed"
  /\ UNCHANGED <<config, loaded, fs, found, qualified_files, idx, frame, failures>>

\* split_image reaches its loop over the quadrants
SplitEntersLoop ==
  /\ pc = "loop" /\ idx <= Len(qualified_files)
  /\ Prologue.outcome = "loop"
  /\ frame' = Entered(Prologue)
  /\ pc' = "split"
  /\ UNCHANGED <<config, loaded, fs, found, qualified_files, idx, failures, calls>>

Target == output_file(output_dir, frame.path, frame.k, frame.fmt)

\* lines 279-281: the output file exists, the quadrant is skipped
QuadrantExists ==
  /\ pc = "split" /\ frame.k <= 4
  /\ ~should_save(fs, Target)
  /\ frame' = [frame EXCEPT !.k = @ + 1, !.skipped = @ \cup {frame.k}]
  /\ UNCHANGED <<config, loaded, fs, pc, found, qualified_files, idx, failures, calls>>

\* lines 275-278: the quadrant is saved
QuadrantSaved ==
  /\ pc = "split" /\ frame.k <= 4
  /\ should_save(fs, Target)
  /\ fs' = write(fs, Target, crop(frame.img, quadrants(frame.img.w, frame.img.h)[frame.k]))
  /\ frame' = [frame EXCEPT !.k = @ + 1, !.written = @ \cup {frame.k}]
  /\ UNCHANGED <<config, loaded, pc, found, qualified_files, idx, failures, calls>>

\* what a save that raised leaves at its path: nothing, or a truncated file
AfterFailedSave(left) == IF left THEN write(fs, Target, Data("partial")) ELSE fs

\* the frame once the save of quadrant k has raised
Failed(left) ==
  [frame EXCEPT !.failed_at = frame.k, !.partial = IF left THEN {frame.k} ELSE {}]

\* a variant that goes on to the next quadrant after a save has raised
QuadrantSaveFailsContinuing ==
  /\ pc = "split" /\ frame.k <= 4
  /\ should_save(fs, Target)
  /\ failures < MaxFailures
  /\ \E left \in BOOLEAN :
       /\ fs' = AfterFailedSave(left)
       /\ frame' = [Failed(left) EXCEPT !.k = @ + 1]
  /\ failures' = failures + 1
  /\ UNCHANGED <<config, loaded, pc, found, qualified_files, idx, calls>>

\* lines 282-285: quadrant.save raises; split_image returns False
QuadrantSaveFails ==
  /\ pc = "split" /\ frame.k <= 4
  /\ should_save(fs, Target)
  /\ failures < MaxFailures
  /\ \E left \in BOOLEAN :
       /\ fs' = AfterFailedSave(left)
       /\ calls' = Append(calls, Ended(Failed(left), "False", fs'))
  /\ failures' = failures + 1
  /\ frame' = NoFrame
  /\ pc' = "loop"
  /\ idx' = idx + 1
  /\ UNCHANGED <<config, loaded, found, qualified_files>>

\* a variant that reports a file none of whose quadrants was saved as failed
SplitReturnsTrueIfSaved ==
  /\ pc = "split" /\ frame.k = 5
  /\ calls' = Append(calls, Ended(frame, IF frame.written = {} THEN "False" ELSE "True", fs))
  /\ frame' = NoFrame
  /\ pc' = "loop"
  /\ idx' = idx + 1
  /\ UNCHANGED <<config, loaded, fs, found, qualified_files, failures>>

\* line 287: the loop is over, split_image returns True
SplitReturnsTrue ==
  /\ pc = "split" /\ frame.k = 5
  /\ calls' = Append(calls, Ended(frame, "True", fs))
  /\ frame' = NoFrame
  /\ pc' = "loop"
  /\ idx' = idx + 1
  /\ UNCHANGED <<config, loaded, fs, found, qualified_files, failures>>

\* main's loop is over
MainEnds ==
  /\ pc = "loop" /\ idx > Len(qualified_files)
  /\ pc' = "done"
  /\ UNCHANGED <<config, loaded, fs, found, qualified_files, idx, frame, failures, calls>>

Next ==
  \/ LoadConfig
  \/ ConfigExit
  \/ FindQualified
  \/ SplitReturnsEarly
  \/ SplitRaises
  \/ SplitEntersLoop
  \/ QuadrantExists
  \/ QuadrantSaved
  \/ QuadrantSaveFails
  \/ SplitReturnsTrue
  \/ MainEnds

Spec == Init /\ [][Next]_vars

\* ------------------------------------------------------------------ claims
Last == calls[Len(calls)]
ToSet(seq) == {seq[i] : i \in 1..Len(seq)}
IsPrefix(d, e) == Len(d) <= Len(e) /\ SubSeq(e, 1, Len(d)) = d
Acquired(c) == c.img.kind = "image"
EvenImage(c) == Acquired(c) /\ c.img.w % 2 = 0 /\ c.img.h % 2 = 0
TargetOf(c, k) == output_file(output_dir, c.path, k, c.fmt)
Pixels(box) == {<<x, y>> : x \in box[1]..(box[3] - 1), y \in box[2]..(box[4] - 1)}
\* the state right after find_qualified_files: no file written yet
AfterFind == pc = "loop" /\ calls = <<>>
Unchanged(before, after) ==
  \A p \in DOMAIN before : p \in DOMAIN after /\ after[p] = before[p]

\* C1: split_image never writes to an output path that exists when its
\* quadrant is reached: during a call and at its end, every file that was
\* there when the call began holds what it held, and every quadrant the call
\* saved went to a path that was free when the call began.
C1_NeverOverwrites ==
  /\ pc = "split" =>
       /\ Unchanged(frame.fs0, fs)
       /\ \A k \in frame.written : TargetOf(frame, k) \notin DOMAIN frame.fs0
  /\ calls # <<>> =>
       /\ Unchanged(Last.fs0, Last.fs1)
       /\ \A k \in Last.written : TargetOf(Last, k) \notin DOMAIN Last.fs0

\* a call that skipped a quadrant already there and saved another one
C1_Witness ==
  /\ calls # <<>>
  /\ Last.ret = "True"
  /\ Last.skipped # {} /\ Last.written # {}
  /\ \E k \in Last.skipped : Last.fs1[TargetOf(Last, k)].id = "old"

\* C2: find_qualified_files returns no file that lies inside the output
\* directory.
C2_OutputDirExcluded ==
  AfterFind =>
    \A i \in 1..Len(qualified_files) : ~IsPrefix(output_dir, qualified_files[i].dir)

\* C3: once the configuration is loaded no candidate halts the run: main
\* never ends on an exception, and when it ends split_image has been called
\* on every qualified file, in order, and has returned.
C3_NoCandidateHaltsRun ==
  /\ pc # "crashed"
  /\ pc = "done" =>
       /\ Len(calls) = Len(qualified_files)
       /\ \A n \in 1..Len(calls) :
            calls[n].path = qualified_files[n] /\ calls[n].ret \in {"True", "False"}

\* C4: for every acquired image of even width and height (no save raising),
\* split_image returns with the four quadrant files _1.._4 in the output
\* directory, each one it saved being the crop of its region, W/2 by H/2,
\* the four regions disjoint and covering the image.
C4_FourQuadrants ==
  calls # <<>> /\ EvenImage(Last) /\ Last.failed_at = 0 =>
    LET W == Last.img.w
        H == Last.img.h
        boxes == quadrants(W, H)
    IN  /\ Last.ret = "True"
        /\ \A k \in 1..4 : TargetOf(Last, k) \in DOMAIN Last.fs1
        /\ \A k \in Last.written :
             /\ Last.fs1[TargetOf(Last, k)] = crop(Last.img, boxes[k])
             /\ Last.fs1[TargetOf(Last, k)].w = W \div 2
             /\ Last.fs1[TargetOf(Last, k)].h = H \div 2
        /\ boxes = << <<0, 0, W \div 2, H \div 2>>, <<W \div 2, 0, W, H \div 2>>,
                      <<0, H \div 2, W \div 2, H>>, <<W \div 2, H \div 2, W, H>> >>
        /\ \A j, k \in 1..4 : j # k => Pixels(boxes[j]) \cap Pixels(boxes[k]) = {}
        /\ UNION {Pixels(boxes[k]) : k \in 1..4} = (0..(W - 1)) \X (0..(H - 1))

\* C5: for an acquired image of odd width or height split_image returns
\* False and the files and their contents are as before the call, whatever
\* the format preference.
C5_OddIsSkipped ==
  calls # <<>> /\ Acquired(Last) /\ ~EvenImage(Last) =>
    /\ Last.ret = "False"
    /\ Last.fs1 = Last.fs0
    /\ Last.written = {}

\* an image of even width and odd height reached under the derive sentinel
C5_Witness ==
  /\ calls # <<>>
  /\ Acquired(Last) /\ Last.img.w % 2 = 0 /\ Last.img.h % 2 = 1
  /\ is_derive(output_format)
  /\ Last.ret = "False"

\* C6: split_image run twice in succession on the same specifier: when the
\* first run returned True (its four files are there), the second saves
\* nothing, skips the four quadrants, leaves the files as the first run left
\* them and returns True.
C6_SecondRunIdempotent ==
  /\ pc = "split" /\ calls # <<>> /\ Last.path = frame.path /\ Last.ret = "True" =>
       frame.written = {} /\ frame.failed_at = 0 /\ fs = Last.fs1
  /\ Len(calls) >= 2 /\ calls[Len(calls) - 1].path = Last.path
       /\ calls[Len(calls) - 1].ret = "True" =>
       /\ Last.ret = "True"
       /\ Last.written = {}
       /\ Last.skipped = 1..4
       /\ Last.fs1 = calls[Len(calls) - 1].fs1

\* a first run that saved the four quadrants, then a second run
C6_Witness ==
  /\ Len(calls) >= 2
  /\ calls[Len(calls) - 1].path = Last.path
  /\ calls[Len(calls) - 1].written = 1..4
  /\ calls[Len(calls) - 1].ret = "True"
  /\ Last.ret = "True"

\* no token of the set starts with a dot
Dotless(exts) == \A t \in exts : Chars(t) # <<>> /\ Chars(t)[1] # "."

\* C7: an input that names an existing local file is in the result if and
\* only if its extension, lower-cased and without its dot, is in the set of
\* supported extensions (tokens without a leading dot).
C7_FileQualifiesByExtension ==
  AfterFind /\ Dotless(supported_extensions) =>
    \A i \in 1..Len(inputs) :
      isfile(fs, inputs[i]) =>
        /\ lower(inputs[i].ext) \in supported_extensions => found[i] = <<inputs[i]>>
        /\ lower(inputs[i].ext) \notin supported_extensions => found[i] = <<>>

\* the regular files of a directory, and of its whole subtree
ImmediateFiles(d) == {p \in DOMAIN fs : p.dir = d}
SubtreeFiles(d) == {p \in DOMAIN fs : IsPrefix(d, p.dir)}
ScannedDirs ==
  {i \in 1..Len(inputs) : ~isfile(fs, inputs[i]) /\ isdir(inputs[i])
                          /\ Append(inputs[i].dir, inputs[i].stem) # output_dir}
DirOf(i) == Append(inputs[i].dir, inputs[i].stem)

C9_UnresolvedFormatSkips ==
  calls # <<>> /\ EvenImage(Last) =>
    /\ is_derive(output_format) /\ get_content_type(Last.fs0, Last.path).value = None
         /\ ~get_content_type(Last.fs0, Last.path).raised =>
         Last.ret = "False" /\ Last.fs1 = Last.fs0
    /\ ~is_derive(output_format) =>
         Last.fmt = output_format /\ ~Last.consulted

\* C10: when the save of quadrant k raises, no quadrant after k is attempted,
\* split_image returns False, the quadrants saved before k are on disk as
\* saved, and main goes on to the next candidate.
C10_SaveFailureAbortsFile ==
  calls # <<>> /\ Last.failed_at # 0 =>
    /\ Last.ret = "False"
    /\ Last.written \cup Last.skipped = 1..(Last.failed_at - 1)
    /\ \A j \in Last.written :
         /\ TargetOf(Last, j) \in DOMAIN fs
         /\ fs[TargetOf(Last, j)] = crop(Last.img, quadrants(Last.img.w, Last.img.h)[j])
    /\ pc \in {"loop", "split", "done"}
    /\ idx = Last.index + 1

\* the save of a later quadrant raised after an earlier one was saved, and
\* main has entered split_image for the next candidate
C10_Witness ==
  /\ calls # <<>>
  /\ Last.failed_at >= 2 /\ Last.written # {}
  /\ pc = "split"

====
